---------------------------- MODULE Spec2Model ----------------------------
(***************************************************************************)
(* A model of the product-analytics-toolkit:                               *)
(*   - ABTestFramework.run_statistical_test, the two-proportion z-test     *)
(*     (src/ab_testing/ab_test_framework.py);                              *)
(*   - RICEPrioritization.add_feature / get_prioritized_list               *)
(*     (src/pm_tools/feature_prioritization_RICE.py).                      *)
(*                                                                         *)
(* Numbers.  A float64 that the code obtains from integers by + - * / is   *)
(* modelled by the exact rational it approximates, [n, d] in lowest terms, *)
(* together with the IEEE special values nan, inf, -inf that numpy's       *)
(* division and sqrt produce instead of raising.  A value that went        *)
(* through np.sqrt is kept as a signed square root s * sqrt(n/d), so that  *)
(* order and equality of z-scores are decided exactly.  The p-value, the   *)
(* only transcendental quantity, is a fixed-point number in millionths.    *)
(***************************************************************************)
EXTENDS Integers, Sequences, FiniteSets

\* ------------------------------------------------------------------------
\* Bounds of the model
\* ------------------------------------------------------------------------

\* largest number of distinct sessions in one experiment group
MaxTotal == 6

\* largest number of rows of a table of records
MaxRows == 3

\* number of distinct session ids a table may hold
MaxSessions == 2

\* largest number of add_feature calls
MaxFeatures == 2

\* ------------------------------------------------------------------------
\* Rational arithmetic (the exact value of a float64 expression)
\* ------------------------------------------------------------------------

Abs(x) == IF x < 0 THEN -x ELSE x

Sign(x) == IF x < 0 THEN -1 ELSE IF x = 0 THEN 0 ELSE 1

RECURSIVE GCD(_, _)
GCD(a, b) == IF b = 0 THEN a ELSE GCD(b, a % b)

\* n/d with d > 0, in lowest terms
Rat(n, d) ==
    LET g == GCD(Abs(n), d)
    IN  [n |-> Sign(n) * (Abs(n) \div g), d |-> d \div g]

RatInt(i) == [n |-> i, d |-> 1]

RatAdd(a, b) ==
    LET g == GCD(a.d, b.d)
    IN  Rat(a.n * (b.d \div g) + b.n * (a.d \div g), (a.d \div g) * b.d)

RatNeg(a) == [n |-> -a.n, d |-> a.d]

RatSub(a, b) == RatAdd(a, RatNeg(b))

RatMul(a, b) ==
    LET g1 == GCD(Abs(a.n), b.d)
        g2 == GCD(Abs(b.n), a.d)
        h1 == IF g1 = 0 THEN 1 ELSE g1
        h2 == IF g2 = 0 THEN 1 ELSE g2
    IN  Rat((a.n \div h1) * (b.n \div h2), (a.d \div h2) * (b.d \div h1))

\* a / b for b # 0
RatDiv(a, b) == RatMul(a, Rat(Sign(b.n) * b.d, Abs(b.n)))

RatLess(a, b) == a.n * b.d < b.n * a.d

RatLeq(a, b) == a.n * b.d <= b.n * a.d

\* ------------------------------------------------------------------------
\* float64 values: finite, or one of the IEEE specials
\* ------------------------------------------------------------------------

Fin(r) == [k |-> "fin", n |-> r.n, d |-> r.d]

NaN == [k |-> "nan", n |-> 0, d |-> 1]

PosInf == [k |-> "inf", n |-> 1, d |-> 1]

NegInf == [k |-> "-inf", n |-> -1, d |-> 1]

IsFinite(x) == x.k = "fin"

RatOf(x) == [n |-> x.n, d |-> x.d]

\* numpy's float64 true division of two finite values: x/0 does not raise,
\* it yields nan (0/0) or +-inf with a RuntimeWarning
np_divide(a, b) ==
    IF b.n # 0 THEN Fin(RatDiv(a, b))
    ELSE IF a.n = 0 THEN NaN
    ELSE IF a.n > 0 THEN PosInf
    ELSE NegInf

\* Python's int / int: raises ZeroDivisionError on a zero divisor
py_divide_raises(b) == b = 0

\* A value that went through np.sqrt: s * sqrt(n/d), s in {-1, 0, 1}
Surd(s, r) == [k |-> "fin", s |-> s, n |-> r.n, d |-> r.d]

SurdNaN == [k |-> "nan", s |-> 0, n |-> 0, d |-> 1]

SurdPosInf == [k |-> "inf", s |-> 1, n |-> 1, d |-> 1]

SurdNegInf == [k |-> "-inf", s |-> -1, n |-> 1, d |-> 1]

\* np.sqrt of a finite value: nan (with a RuntimeWarning) below zero
np_sqrt(r) ==
    IF r.n < 0 THEN SurdNaN ELSE Surd(Sign(r.n), r)

\* numpy's division of a finite rational by a value that went through sqrt
np_divide_sqrt(a, se) ==
    IF se.k = "nan" THEN SurdNaN
    ELSE IF se.s = 0
         THEN IF a.n = 0 THEN SurdNaN
              ELSE IF a.n > 0 THEN SurdPosInf ELSE SurdNegInf
         ELSE Surd(Sign(a.n), RatDiv(RatMul(a, a), [n |-> se.n, d |-> se.d]))

\* -x
SurdNeg(z) ==
    IF z.k = "inf" THEN SurdNegInf
    ELSE IF z.k = "-inf" THEN SurdPosInf
    ELSE [z EXCEPT !.s = -z.s]

\* x < y for two finite values s * sqrt(q)
SurdLess(x, y) ==
    LET qx == [n |-> x.n, d |-> x.d]
        qy == [n |-> y.n, d |-> y.d]
    IN  IF x.s < 0 /\ y.s < 0 THEN RatLess(qy, qx)
        ELSE IF x.s > 0 /\ y.s > 0 THEN RatLess(qx, qy)
        ELSE x.s < y.s

\* ------------------------------------------------------------------------
\* scipy.stats.norm.cdf, in millionths
\* ------------------------------------------------------------------------

\* 1.0 as a fixed-point number of millionths
One == 1000000

\* The standard normal distribution function at 0.00, 0.05, ..., 5.05, in
\* millionths (entry i is Phi((i - 1) / 20)); 1 - Phi(x) < 0.0000003 from 5 on
PhiTable ==
    << 500000, 519939, 539828, 559618, 579260, 598706, 617911, 636831,
       655422, 673645, 691462, 708840, 725747, 742154, 758036, 773373,
       788145, 802337, 815940, 828944, 841345, 853141, 864334, 874928,
       884930, 894350, 903200, 911492, 919243, 926471, 933193, 939429,
       945201, 950529, 955435, 959941, 964070, 967843, 971283, 974412,
       977250, 979818, 982136, 984222, 986097, 987776, 989276, 990613,
       991802, 992857, 993790, 994614, 995339, 995975, 996533, 997020,
       997445, 997814, 998134, 998411, 998650, 998856, 999032, 999184,
       999313, 999423, 999517, 999596, 999663, 999720, 999767, 999807,
       999841, 999869, 999892, 999912, 999928, 999941, 999952, 999961,
       999968, 999974, 999979, 999983, 999987, 999989, 999991, 999993,
       999995, 999996, 999997, 999997, 999998, 999998, 999999, 999999,
       999999, 999999, 1000000, 1000000, 1000000, 1000000 >>

\* the largest x in lo..hi with x * x <= m (lo * lo <= m < (hi + 1)^2)
RECURSIVE ISqrtIn(_, _, _)
ISqrtIn(m, lo, hi) ==
    IF lo = hi THEN lo
    ELSE LET mid == (lo + hi + 1) \div 2
         IN  IF mid * mid <= m THEN ISqrtIn(m, mid, hi)
             ELSE ISqrtIn(m, lo, mid - 1)

\* floor(1000 * sqrt(n/d)) for n/d < 25, by long division in two stages of
\* three digits so that no intermediate product leaves 32 bits
Thousandths(n, d) ==
    LET q  == n \div d
        r1 == (n % d) * 1000
        a  == r1 \div d
        r2 == (r1 % d) * 1000
        b  == r2 \div d
    IN  ISqrtIn(q * 1000000 + a * 1000 + b, 0, 4999)

\* norm.cdf(x) for x = sqrt(n/d) >= 0: linear interpolation in PhiTable at x
\* cut to thousandths; the p-value it gives is within 0.001 of the double's
norm_cdf(n, d) ==
    IF n >= 25 * d THEN One
    ELSE LET t == Thousandths(n, d)
             i == t \div 50
             f == t % 50
         IN  PhiTable[i + 1] + ((PhiTable[i + 2] - PhiTable[i + 1]) * f) \div 50

FixNaN == [k |-> "nan", v |-> 0]

Fix(v) == [k |-> "fin", v |-> v]

\* a variant of p_value_of that leaves out abs()
p_value_of_one_sided(z_score) ==
    IF z_score.k = "nan" THEN FixNaN
    ELSE IF z_score.k = "inf" THEN Fix(0)
    ELSE IF z_score.k = "-inf" THEN Fix(2 * One)
    ELSE IF z_score.s >= 0
         THEN Fix(2 * (One - norm_cdf(z_score.n, z_score.d)))
         ELSE Fix(2 * norm_cdf(z_score.n, z_score.d))

\* line 38: p_value = 2 * (1 - stats.norm.cdf(abs(z_score)))
p_value_of(z_score) ==
    IF z_score.k = "nan" THEN FixNaN
    ELSE IF z_score.k \in {"inf", "-inf"} THEN Fix(2 * (One - One))
    ELSE Fix(2 * (One - norm_cdf(z_score.n, z_score.d)))

\* ------------------------------------------------------------------------
\* ABTestFramework.run_statistical_test, lines 31-49: the z-test on the
\* four counts taken from the table
\* ------------------------------------------------------------------------

\* alpha=0.05, in millionths
DefaultAlpha == 50000

\* line 34: p_pooled = (control_conv + treatment_conv)
\*                     / (control_total + treatment_total)
p_pooled_of(control_conv, control_total, treatment_conv, treatment_total) ==
    Rat(control_conv + treatment_conv, control_total + treatment_total)

\* a variant of se_squared that leaves out 1/treatment_total
se_squared_control_only(p_pooled, control_total, treatment_total) ==
    RatMul(RatMul(p_pooled, RatSub(RatInt(1), p_pooled)),
           Rat(1, control_total))

\* line 36, under the square root:
\*   p_pooled * (1 - p_pooled) * (1/control_total + 1/treatment_total)
se_squared(p_pooled, control_total, treatment_total) ==
    RatMul(RatMul(p_pooled, RatSub(RatInt(1), p_pooled)),
           RatAdd(Rat(1, control_total), Rat(1, treatment_total)))

\* a variant of z_score_of that subtracts the other way round
z_score_of_reversed(p_control, p_treatment, se) ==
    np_divide_sqrt(RatSub(p_control, p_treatment), se)

\* line 37: z_score = (p_treatment - p_control) / se
z_score_of(p_control, p_treatment, se) ==
    np_divide_sqrt(RatSub(p_treatment, p_control), se)

\* line 40: lift = ((p_treatment - p_control) / p_control) * 100
lift_of(p_control, p_treatment) ==
    LET q == np_divide(RatSub(p_treatment, p_control), p_control)
    IN  IF IsFinite(q) THEN Fin(RatMul(RatOf(q), RatInt(100))) ELSE q

\* line 48: p_value < alpha (a comparison with nan is False)
significant_of(p_value, alpha) == p_value.k = "fin" /\ p_value.v < alpha

Raised(e, line) == [status |-> e, line |-> line]

z_test(control_conv, control_total, treatment_conv, treatment_total, alpha) ==
    \* lines 32-34 are numpy divisions: a zero total gives nan or inf and a
    \* RuntimeWarning; line 36 divides two Python ints and raises
    IF py_divide_raises(control_total) \/ py_divide_raises(treatment_total)
    THEN Raised("ZeroDivisionError", 36)
    ELSE LET p_control   == Rat(control_conv, control_total)
             p_treatment == Rat(treatment_conv, treatment_total)
             p_pooled    == p_pooled_of(control_conv, control_total,
                                        treatment_conv, treatment_total)
             se      == np_sqrt(se_squared(p_pooled, control_total,
                                           treatment_total))
             z_score == z_score_of(p_control, p_treatment, se)
             p_value == p_value_of(z_score)
         IN  [status         |-> "returned",
              control_rate   |-> Fin(p_control),
              treatment_rate |-> Fin(p_treatment),
              lift_percent   |-> lift_of(p_control, p_treatment),
              z_score        |-> z_score,
              p_value        |-> p_value,
              statistically_significant |-> significant_of(p_value, alpha)]

\* ------------------------------------------------------------------------
\* State
\* ------------------------------------------------------------------------

VARIABLES
    counts,       \* the four counts of lines 25-29, taken from the table
    alpha,        \* run_statistical_test's alpha, in millionths
    result,       \* what the last run_statistical_test returned or raised
    prev,         \* what the run before it returned or raised
    op,           \* the last operation on the A/B test
    df,           \* ABTestFramework.df: the rows read from the csv file
    df_result,    \* what run_statistical_test(df) returned or raised
    features,     \* RICEPrioritization.features
    prioritized,  \* the rows get_prioritized_list returned last
    rice_call     \* the last RICEPrioritization call and what it raised

vars == << counts, alpha, result, prev, op, df, df_result,
           features, prioritized, rice_call >>

ab_vars == << counts, alpha, result, prev, op >>

df_vars == << df, df_result >>

rice_vars == << features, prioritized, rice_call >>

NotRun == [status |-> "none", line |-> 0]

NoCall == [name |-> "none", raised |-> "none"]

Counts(cc, ct, tc, tt) ==
    [control_conv |-> cc, control_total |-> ct,
     treatment_conv |-> tc, treatment_total |-> tt]

\* the z-test on a record of counts
z_test_on(c, a) ==
    z_test(c.control_conv, c.control_total,
           c.treatment_conv, c.treatment_total, a)

\* ------------------------------------------------------------------------
\* The z-test on counts
\* ------------------------------------------------------------------------

\* (conversions, sessions) of one group as a table can give them: a group
\* without sessions has no rows, hence no conversions; a session with
\* several converting rows counts once in the total and each time in the sum
GroupCounts ==
    { gc \in (0 .. MaxTotal + 1) \X (0 .. MaxTotal) :
        gc[2] = 0 => gc[1] = 0 }

\* the worked example: 100 of 1000 against 120 of 1000
KnownCounts == Counts(100, 1000, 120, 1000)

CountInputs ==
    { Counts(c[1], c[2], t[1], t[2]) : c \in GroupCounts, t \in GroupCounts }
        \cup {KnownCounts}

\* alpha: the default 0.05, 0.2, and the two ends of (0, 1)
AlphaInputs == {DefaultAlpha, 200000, 0, One}

InitAB ==
    /\ counts \in CountInputs
    /\ alpha \in AlphaInputs
    /\ result = NotRun
    /\ prev = NotRun
    /\ op = "init"
    /\ df = << >>
    /\ df_result = NotRun
    /\ features = << >>
    /\ prioritized = << >>
    /\ rice_call = NoCall

\* ab_test.run_statistical_test(alpha)
RunStatisticalTest ==
    /\ op = "init"
    /\ result' = z_test_on(counts, alpha)
    /\ prev' = result
    /\ op' = "run"
    /\ UNCHANGED << counts, alpha >>

\* the same test on the table with the two group labels exchanged
RunSwapped ==
    /\ op = "run"
    /\ counts' = Counts(counts.treatment_conv, counts.treatment_total,
                        counts.control_conv, counts.control_total)
    /\ result' = z_test_on(counts', alpha)
    /\ prev' = result
    /\ op' = "swapped"
    /\ UNCHANGED alpha

\* the same test on a table with more converting treatment rows and the
\* same sessions
RunMoreTreatment ==
    /\ op = "run"
    /\ \E s2 \in (counts.treatment_conv + 1) .. (MaxTotal + 1) :
          counts' = [counts EXCEPT !.treatment_conv = s2]
    /\ counts.treatment_total > 0
    /\ result' = z_test_on(counts', alpha)
    /\ prev' = result
    /\ op' = "more"
    /\ UNCHANGED alpha

NextAB ==
    \/ RunStatisticalTest /\ UNCHANGED << df_vars, rice_vars >>
    \/ RunSwapped /\ UNCHANGED << df_vars, rice_vars >>
    \/ RunMoreTreatment /\ UNCHANGED << df_vars, rice_vars >>

SpecAB == InitAB /\ [][NextAB]_vars

\* ------------------------------------------------------------------------
\* Properties of the z-test (checked under SpecAB)
\* ------------------------------------------------------------------------

Returned(r) == r.status = "returned"

\* 0 <= successes <= total and total > 0 in both groups, alpha in (0, 1)
ValidInputs(c, a) ==
    /\ c.control_total > 0 /\ c.treatment_total > 0
    /\ 0 <= c.control_conv /\ c.control_conv <= c.control_total
    /\ 0 <= c.treatment_conv /\ c.treatment_conv <= c.treatment_total
    /\ 0 < a /\ a < One

\* no field of a returned result is nan or infinite
AllFinite(r) ==
    /\ IsFinite(r.control_rate) /\ IsFinite(r.treatment_rate)
    /\ IsFinite(r.lift_percent)
    /\ r.z_score.k = "fin" /\ r.p_value.k = "fin"

\* the pooled standard error of line 36 is zero
PooledSEZero(c) ==
    LET pp == p_pooled_of(c.control_conv, c.control_total,
                          c.treatment_conv, c.treatment_total)
    IN  pp.n = 0 \/ pp = RatInt(1)

\* C1: a returned result has no nan or infinite field, and when both totals
\* are positive and the pooled standard error is zero or the control rate
\* is zero, the call fails with DivisionByZero.
C1_NeverNaNOrInf ==
    op # "init" =>
        /\ Returned(result) => AllFinite(result)
        /\ ( /\ counts.control_total > 0 /\ counts.treatment_total > 0
             /\ (PooledSEZero(counts) \/ counts.control_conv = 0) )
           => result.status = "DivisionByZero"

\* C2: a group without sessions makes the call fail with InsufficientData,
\* before line 32 computes the first rate.
C2_InsufficientDataFirst ==
    (op # "init" /\ (counts.control_total = 0 \/ counts.treatment_total = 0))
        => (result.status = "InsufficientData" /\ result.line < 32)

\* C3: more successes than sessions in a group, or alpha outside (0, 1),
\* makes the call fail with InvalidInput.
C3_InvalidInputRejected ==
    ( /\ op # "init"
      /\ counts.control_total > 0 /\ counts.treatment_total > 0
      /\ \/ counts.control_conv > counts.control_total
         \/ counts.treatment_conv > counts.treatment_total
         \/ alpha <= 0 \/ alpha >= One )
        => result.status = "InvalidInput"

InUnitInterval(x) ==
    IsFinite(x) /\ RatLeq(RatInt(0), RatOf(x)) /\ RatLeq(RatOf(x), RatInt(1))

\* C5: for valid inputs, a returned result has both rates in [0, 1] and its
\* p_value in [0, 1].
C5_RatesAndPValueInRange ==
    (op # "init" /\ ValidInputs(counts, alpha) /\ Returned(result)) =>
        /\ InUnitInterval(result.control_rate)
        /\ InUnitInterval(result.treatment_rate)
        /\ result.p_value.k = "fin"
        /\ 0 <= result.p_value.v /\ result.p_value.v <= One

\* a result whose z_score, hence p_value, is a number
Defined(r) == Returned(r) /\ r.z_score.k = "fin"

\* C6: for valid inputs with a defined result, the test with control and
\* treatment exchanged returns the negated z_score, the same p_value and the
\* same verdict.
C6_SwapNegatesZ ==
    (op = "swapped" /\ ValidInputs(counts, alpha) /\ Defined(prev)) =>
        /\ Defined(result)
        /\ result.z_score = SurdNeg(prev.z_score)
        /\ result.p_value = prev.p_value
        /\ result.statistically_significant = prev.statistically_significant

C6_Witness ==
    /\ op = "swapped" /\ ValidInputs(counts, alpha) /\ Defined(prev)
    /\ counts.control_total # counts.treatment_total
    /\ prev.z_score.s = 1 /\ result.z_score.s = -1
    /\ prev.p_value.v > 0 /\ prev.p_value.v < DefaultAlpha

\* C7: with the other three counts fixed, a larger valid treatment_successes
\* gives a strictly greater treatment_rate and z_score (both results
\* defined) and lift_percent (both lifts finite); over results with
\* z_score > 0, that is from a first result with z_score > 0 on, the
\* p_value is not greater.
C7_MonotoneInTreatment ==
    (op = "more" /\ ValidInputs(counts, alpha)
        /\ Defined(prev) /\ Defined(result)) =>
        /\ RatLess(RatOf(prev.treatment_rate), RatOf(result.treatment_rate))
        /\ SurdLess(prev.z_score, result.z_score)
        /\ (IsFinite(prev.lift_percent) /\ IsFinite(result.lift_percent))
              => RatLess(RatOf(prev.lift_percent), RatOf(result.lift_percent))
        /\ prev.z_score.s > 0 => result.p_value.v <= prev.p_value.v

C7_Witness ==
    /\ op = "more" /\ ValidInputs(counts, alpha)
    /\ Defined(prev) /\ Defined(result)
    /\ IsFinite(prev.lift_percent) /\ IsFinite(result.lift_percent)
    /\ prev.z_score.s > 0
    /\ result.p_value.v < prev.p_value.v

C8_Scenario == counts = KnownCounts /\ alpha = DefaultAlpha /\ op = "run"

\* the fields of the worked example that do not depend on the standard error
C8_RatesAndLift ==
    /\ Returned(result)
    /\ result.control_rate = Fin(Rat(10, 100))
    /\ result.treatment_rate = Fin(Rat(12, 100))
    /\ p_pooled_of(counts.control_conv, counts.control_total,
                   counts.treatment_conv, counts.treatment_total)
          = Rat(11, 100)
    /\ result.lift_percent = Fin(RatInt(20))
    /\ result.z_score.k = "fin" /\ result.z_score.s = 1
    /\ result.p_value.k = "fin"

\* C8 as stated: 100/1000 against 120/1000 at alpha = 0.05 gives rates 0.10
\* and 0.12, p_pooled 0.11, lift 20.0, z_score about 2.024, p_value about
\* 0.043 and significant = true.
C8_KnownValueAsStated ==
    C8_Scenario =>
        /\ C8_RatesAndLift
        /\ Thousandths(result.z_score.n, result.z_score.d) \in 2023 .. 2024
        /\ Abs(result.p_value.v - 43000) <= 1000
        /\ result.statistically_significant = TRUE

\* C8 amended: 100/1000 against 120/1000 at alpha = 0.05 gives rates 0.10
\* and 0.12, p_pooled 0.11, lift 20.0, z_score about 1.429 (its square is
\* 2000/979), p_value about 0.153 and significant = false; significant is
\* the comparison p_value < alpha in every returned result.
C8_KnownValue ==
    /\ C8_Scenario =>
        /\ C8_RatesAndLift
        /\ Thousandths(result.z_score.n, result.z_score.d) = 1429
        /\ Abs(result.p_value.v - 153000) <= 1000
        /\ result.statistically_significant = FALSE
    /\ (op # "init" /\ Returned(result)) =>
        (result.statistically_significant
            <=> (result.p_value.k = "fin" /\ result.p_value.v < alpha))

C8_Witness == C8_Scenario /\ Returned(result) /\ result.p_value.k = "fin"

\* ------------------------------------------------------------------------
\* ABTestFramework on a table of records (SpecDF)
\* ------------------------------------------------------------------------

Groups == {"control", "treatment"}

\* a row of the csv file, cut to the three columns that ABTestFramework reads
Rows ==
    [session_id : 1 .. MaxSessions, conversion : {0, 1},
     experiment_group : Groups]

Tables == UNION { [1 .. n -> Rows] : n \in 0 .. MaxRows }

\* lines 22-23: self.df[self.df['experiment_group'] == g]
group_rows(t, g) == SelectSeq(t, LAMBDA r : r.experiment_group = g)

\* lines 25, 28: rows['conversion'].sum()
RECURSIVE conversion_sum(_)
conversion_sum(rows) ==
    IF rows = << >> THEN 0
    ELSE Head(rows).conversion + conversion_sum(Tail(rows))

\* lines 26, 29: rows['session_id'].nunique()
session_nunique(rows) ==
    Cardinality({ rows[i].session_id : i \in DOMAIN rows })

\* lines 22-29: the four counts of the table
table_counts(t) ==
    Counts(conversion_sum(group_rows(t, "control")),
           session_nunique(group_rows(t, "control")),
           conversion_sum(group_rows(t, "treatment")),
           session_nunique(group_rows(t, "treatment")))

\* lines 21-49
run_statistical_test(t, a) == z_test_on(table_counts(t), a)

\* lines 13-19: one row per group that has rows, with its distinct sessions,
\* its summed conversions and their quotient
calculate_conversion_rates(t) ==
    [g \in { h \in Groups : group_rows(t, h) # << >> } |->
        [session_id |-> session_nunique(group_rows(t, g)),
         conversion |-> conversion_sum(group_rows(t, g)),
         conversion_rate |->
            np_divide(RatInt(conversion_sum(group_rows(t, g))),
                      RatInt(session_nunique(group_rows(t, g))))]]

\* ABTestFramework(data_path): the table is whatever the csv file holds
InitDF ==
    /\ df \in Tables
    /\ df_result = NotRun
    /\ counts = Counts(0, 0, 0, 0)
    /\ alpha = DefaultAlpha
    /\ result = NotRun
    /\ prev = NotRun
    /\ op = "init"
    /\ features = << >>
    /\ prioritized = << >>
    /\ rice_call = NoCall

RunOnTable ==
    /\ df_result = NotRun
    /\ df_result' = run_statistical_test(df, DefaultAlpha)
    /\ UNCHANGED df

CalculateConversionRates ==
    /\ df_result = NotRun
    /\ df_result' = [status |-> "rates", line |-> 19,
                     results |-> calculate_conversion_rates(df)]
    /\ UNCHANGED df

NextDF ==
    \/ RunOnTable /\ UNCHANGED << ab_vars, rice_vars >>
    \/ CalculateConversionRates /\ UNCHANGED << ab_vars, rice_vars >>

SpecDF == InitDF /\ [][NextDF]_vars

\* C4: for every table, the counts run_statistical_test takes from it have
\* 0 <= successes <= total in both groups.
C4_SuccessesWithinTotal ==
    df_result # NotRun =>
        LET c == table_counts(df)
        IN  /\ 0 <= c.control_conv /\ c.control_conv <= c.control_total
            /\ 0 <= c.treatment_conv /\ c.treatment_conv <= c.treatment_total

\* ------------------------------------------------------------------------
\* RICEPrioritization (SpecRice)
\* ------------------------------------------------------------------------

\* line 20: (reach * impact * (confidence/100)) / effort, effort # 0;
\* reach, confidence and effort are integers, impact is a rational
rice_score_of(reach, impact, confidence, effort) ==
    RatDiv(RatMul(RatMul(RatInt(reach), impact), Rat(confidence, 100)),
           RatInt(effort))

\* a variant of python_round_2 that cuts the digits off
python_round_2_truncating(r) ==
    LET x == RatMul(r, RatInt(100)) IN x.n \div x.d

\* line 28: round(rice_score, 2) for rice_score >= 0, as a number of
\* hundredths: the nearest multiple of 0.01.  A score halfway between two
\* of them that is a binary fraction (0.125) is held exactly by the double
\* and goes to the even neighbour (0.12).
python_round_2(r) ==
    LET x  == RatMul(r, RatInt(100))
        fl == x.n \div x.d
        r2 == 2 * (x.n % x.d)
    IN  IF r2 < x.d THEN fl
        ELSE IF r2 > x.d THEN fl + 1
        ELSE IF fl % 2 = 0 THEN fl ELSE fl + 1

\* lines 22-29: the dict that add_feature appends; rice_score in hundredths
feature_row(name, reach, impact, confidence, effort, hundredths) ==
    [name |-> name, reach |-> reach, impact |-> impact,
     confidence |-> confidence, effort |-> effort,
     rice_score |-> hundredths]

\* insert row r into rows sorted by non-increasing rice_score, behind every
\* row whose score is not smaller
RECURSIVE insert_desc(_, _)
insert_desc(r, rows) ==
    IF rows = << >> THEN << r >>
    ELSE IF Head(rows).rice_score >= r.rice_score
         THEN << Head(rows) >> \o insert_desc(r, Tail(rows))
         ELSE << r >> \o rows

\* a variant of insert_desc that sorts by non-decreasing rice_score
RECURSIVE insert_asc(_, _)
insert_asc(r, rows) ==
    IF rows = << >> THEN << r >>
    ELSE IF Head(rows).rice_score <= r.rice_score
         THEN << Head(rows) >> \o insert_asc(r, Tail(rows))
         ELSE << r >> \o rows

RECURSIVE sort_values_asc(_)
sort_values_asc(rows) ==
    IF rows = << >> THEN << >>
    ELSE insert_asc(rows[Len(rows)],
                    sort_values_asc(SubSeq(rows, 1, Len(rows) - 1)))

\* line 33: df.sort_values('rice_score', ascending=False)
\*            .reset_index(drop=True)
\* rows of equal score keep their order (pandas sorts the reversed column
\* and reverses the result; numpy sorts short arrays by insertion)
RECURSIVE sort_values_desc(_)
sort_values_desc(rows) ==
    IF rows = << >> THEN << >>
    ELSE insert_desc(rows[Len(rows)],
                     sort_values_desc(SubSeq(rows, 1, Len(rows) - 1)))

\* lines 31-33; the frame of an empty list has no column 'rice_score'
get_prioritized_list_raises(fs) == fs = << >>

Names == {"A", "B"}

ReachInputs == {1, 2}

\* 0.25 (minimal) and 3 (massive)
ImpactInputs == {Rat(1, 4), RatInt(3)}

ConfidenceInputs == {50, 80}

\* person-months; 0 makes line 20 raise
EffortInputs == {0, 1, 3}

InitRice ==
    /\ features = << >>
    /\ prioritized = << >>
    /\ rice_call = NoCall
    /\ df = << >>
    /\ df_result = NotRun
    /\ counts = Counts(0, 0, 0, 0)
    /\ alpha = DefaultAlpha
    /\ result = NotRun
    /\ prev = NotRun
    /\ op = "init"

\* rice.add_feature(name, reach, impact, confidence, effort)
AddFeature ==
    /\ Len(features) < MaxFeatures
    /\ \E name \in Names, reach \in ReachInputs, impact \in ImpactInputs,
          confidence \in ConfidenceInputs, effort \in EffortInputs :
          IF py_divide_raises(effort)
          THEN /\ rice_call' = [name |-> "add_feature",
                                raised |-> "ZeroDivisionError"]
               /\ UNCHANGED features
          ELSE /\ features' = Append(features,
                      feature_row(name, reach, impact, confidence, effort,
                          python_round_2(rice_score_of(reach, impact,
                                                       confidence, effort))))
               /\ rice_call' = [name |-> "add_feature", raised |-> "none"]
    /\ UNCHANGED prioritized

\* rice.get_prioritized_list()
GetPrioritizedList ==
    /\ IF get_prioritized_list_raises(features)
       THEN /\ rice_call' = [name |-> "get_prioritized_list",
                             raised |-> "KeyError"]
            /\ UNCHANGED prioritized
       ELSE /\ prioritized' = sort_values_desc(features)
            /\ rice_call' = [name |-> "get_prioritized_list",
                             raised |-> "none"]
    /\ UNCHANGED features

NextRice ==
    \/ AddFeature /\ UNCHANGED << ab_vars, df_vars >>
    \/ GetPrioritizedList /\ UNCHANGED << ab_vars, df_vars >>

SpecRice == InitRice /\ [][NextRice]_vars

\* ------------------------------------------------------------------------
\* Properties of RICEPrioritization (checked under SpecRice)
\* ------------------------------------------------------------------------

\* reach * impact * (confidence/100) / effort of a stored feature
ExactScore(f) == rice_score_of(f.reach, f.impact, f.confidence, f.effort)

\* the stored rice_score as a rational
StoredScore(f) == Rat(f.rice_score, 100)

\* C9 as stated: the score stored for a feature with effort > 0 and
\* confidence > 0 equals reach * impact * (confidence/100) / effort.
C9_ScoreAsStated ==
    \A i \in DOMAIN features :
        (features[i].effort > 0 /\ features[i].confidence > 0)
            => StoredScore(features[i]) = ExactScore(features[i])

\* C9 amended: the score stored for a feature with effort > 0 and
\* confidence > 0 is reach * impact * (confidence/100) / effort rounded to
\* two decimal places: a multiple of 0.01 that differs from it by at most
\* 0.005.
C9_ScoreRounded ==
    \A i \in DOMAIN features :
        (features[i].effort > 0 /\ features[i].confidence > 0)
            => LET diff == RatSub(StoredScore(features[i]),
                                  ExactScore(features[i]))
               IN  RatLeq([n |-> Abs(diff.n), d |-> diff.d], Rat(5, 1000))

C9_Witness ==
    /\ rice_call = [name |-> "add_feature", raised |-> "none"]
    /\ \E i \in DOMAIN features :
          /\ features[i].effort > 0 /\ features[i].confidence > 0
          /\ RatLess(StoredScore(features[i]), ExactScore(features[i]))
    /\ \E i \in DOMAIN features :
          RatLess(ExactScore(features[i]), StoredScore(features[i]))

Occurrences(rows, r) == Cardinality({ i \in DOMAIN rows : rows[i] = r })

\* rows a and rows b hold the same rows, each as often
SameRows(a, b) ==
    /\ Len(a) = Len(b)
    /\ \A i \in DOMAIN a : Occurrences(a, a[i]) = Occurrences(b, a[i])

NonIncreasing(rows) ==
    \A i \in 1 .. Len(rows) - 1 :
        rows[i].rice_score >= rows[i + 1].rice_score

GetReturned == rice_call = [name |-> "get_prioritized_list", raised |-> "none"]

\* what get_prioritized_list returns: every stored feature once, by
\* non-increasing rice_score
C10_Returned ==
    GetReturned =>
        /\ SameRows(prioritized, features)
        /\ NonIncreasing(prioritized)

\* get_prioritized_list leaves the stored list as it is, and a second call
\* returns the same rows; add_feature leaves the earlier entries in place
\* and appends at most one
C10_Step ==
    /\ rice_call'.name = "get_prioritized_list" =>
          /\ features' = features
          /\ GetReturned => prioritized' = prioritized
    /\ rice_call'.name = "add_feature" =>
          /\ Len(features') \in {Len(features), Len(features) + 1}
          /\ SubSeq(features', 1, Len(features)) = features

\* C10: after add_feature calls, get_prioritized_list returns one row per
\* stored feature (a permutation, equal names kept) by non-increasing
\* rice_score and leaves the stored list unchanged in content and order, so
\* that a repeated call returns the same list; add_feature only appends.
C10_PrioritizedList == [] C10_Returned /\ [][C10_Step]_vars

C10_Witness ==
    /\ GetReturned
    /\ Len(features) >= 2
    /\ prioritized # features
    /\ \E i, j \in DOMAIN features : i < j /\ features[i].name = features[j].name

=============================================================================
